---- MODULE Spec2Model ----
(***************************************************************************)
(* Verification model of the international (European) certificate          *)
(* verifier of the CoronaCheck mobile core: verifier_european.go.          *)
(*                                                                         *)
(* Every verification call is a pure function of its inputs.  A behaviour  *)
(* of the model is one call: the initial state holds the inputs of the     *)
(* call (payload, decoded health certificate, policy rules, current time), *)
(* and the single step of the behaviour runs one function of the source on *)
(* them and stores what it returns in `result`.                            *)
(*                                                                         *)
(* Conventions                                                             *)
(*   - a Go error is the sequence of its messages, outermost prefix first; *)
(*     nil is the empty sequence;                                          *)
(*   - a Go pointer result is a sequence of length at most one; nil is the *)
(*     empty sequence;                                                     *)
(*   - a time.Time is a record [sec, offset]: the instant in seconds since *)
(*     the Unix epoch and the zone offset of its location in seconds; the  *)
(*     source only orders instants and adds whole hours to them, so whole  *)
(*     seconds stand for the nanoseconds of Go;                            *)
(*   - a Go string that is inspected character by character is a sequence  *)
(*     of one-character strings.                                           *)
(***************************************************************************)
EXTENDS Integers, Sequences, FiniteSets, TLC

VARIABLES pc, payload, hcert, rules, now, result

vars == <<pc, payload, hcert, rules, now, result>>

(***************************************************************************)
(* Constants of the source                                                 *)
(***************************************************************************)
HCERT_SPECIMEN_EXPIRATION_TIME == 42
DISEASE_TARGETED_COVID_19 == "840539006"
TEST_RESULT_NOT_DETECTED == "260415000"
NL_COUNTRY_CODE == "NL"
DOB_EMPTY_VALUE == <<"X", "X">>

(***************************************************************************)
(* Bounds of the model                                                     *)
(***************************************************************************)
MaxDay == 3          \* calendar days 0..MaxDay after the epoch
MaxStatements == 2   \* statements per group of a DCC
MaxDose == 3         \* dose numbers 0..MaxDose
MaxDobLen == 4       \* dates of birth of arbitrary characters up to this length
MaxEpochSec == 44    \* issuedAt / expirationTime / now in 40..MaxEpochSec
MaxTestHours == 50   \* a test is verified up to this many hours after the epoch
MaxDelayDays == 2    \* policy offsets of 0..MaxDelayDays days
MaxTailLen == 6      \* characters after the year of a long date of birth

(***************************************************************************)
(* package time                                                            *)
(***************************************************************************)
Hour == 60 * 60
Day == 24 * Hour

Time(s, o) == [sec |-> s, offset |-> o]
\* time.Unix(sec, 0): the local Time of a Unix time
Unix(s) == Time(s, 0)
\* t.Before(u), t.After(u): comparison of the instants, whatever the locations
Before(t, u) == t.sec < u.sec
After(t, u) == t.sec > u.sec
\* t.Add(d), d in seconds
Add(t, d) == [t EXCEPT !.sec = t.sec + d]
\* t.UTC(): the same instant, location UTC
UTC(t) == [t EXCEPT !.offset = 0]
\* t.Truncate(d): rounds the absolute time since the zero Time (a UTC
\* midnight, a whole number of days before the Unix epoch) down to a multiple
\* of d; the location plays no part
\* a variant that rounds the wall clock of the location down instead
Truncate_WallClock(t, d) == [t EXCEPT !.sec = t.sec - ((t.sec + t.offset) % d)]
Truncate(t, d) == [t EXCEPT !.sec = t.sec - (t.sec % d)]

(***************************************************************************)
(* package errors                                                          *)
(***************************************************************************)
nil == << >>
Errorf(msg) == <<msg>>
WrapPrefix(err, prefix) == <<prefix>> \o err

(***************************************************************************)
(* validateHcert                                                           *)
(***************************************************************************)
\* a variant that compares now with issuedAt before it compares the bounds
validateHcert_NotYetValidFirst(h, n) ==
    IF h.ExpirationTime = HCERT_SPECIMEN_EXPIRATION_TIME
    THEN [isSpecimen |-> TRUE, err |-> nil]
    ELSE LET issuedAt == Unix(h.IssuedAt)
             expirationTime == Unix(h.ExpirationTime)
         IN  IF Before(n, issuedAt)
             THEN [isSpecimen |-> FALSE, err |-> Errorf("Is issued before the current time")]
             ELSE IF Before(expirationTime, issuedAt)
             THEN [isSpecimen |-> FALSE, err |-> Errorf("Cannot be issued after it expires")]
             ELSE IF Before(expirationTime, n)
             THEN [isSpecimen |-> FALSE, err |-> Errorf("Is not valid anymore; was valid until %d")]
             ELSE [isSpecimen |-> FALSE, err |-> nil]
\* a variant that looks for the sentinel only after the bounds are compared
validateHcert_SentinelAfterBounds(h, n) ==
    LET issuedAt == Unix(h.IssuedAt)
        expirationTime == Unix(h.ExpirationTime)
    IN  IF Before(expirationTime, issuedAt)
        THEN [isSpecimen |-> FALSE, err |-> Errorf("Cannot be issued after it expires")]
        ELSE IF h.ExpirationTime = HCERT_SPECIMEN_EXPIRATION_TIME
        THEN [isSpecimen |-> TRUE, err |-> nil]
        ELSE IF Before(n, issuedAt)
        THEN [isSpecimen |-> FALSE, err |-> Errorf("Is issued before the current time")]
        ELSE IF Before(expirationTime, n)
        THEN [isSpecimen |-> FALSE, err |-> Errorf("Is not valid anymore; was valid until %d")]
        ELSE [isSpecimen |-> FALSE, err |-> nil]

validateHcert(h, n) ==
    IF h.ExpirationTime = HCERT_SPECIMEN_EXPIRATION_TIME
    THEN [isSpecimen |-> TRUE, err |-> nil]
    ELSE LET issuedAt == Unix(h.IssuedAt)
             expirationTime == Unix(h.ExpirationTime)
         IN  IF Before(expirationTime, issuedAt)
             THEN [isSpecimen |-> FALSE, err |-> Errorf("Cannot be issued after it expires")]
             ELSE IF Before(n, issuedAt)
             THEN [isSpecimen |-> FALSE, err |-> Errorf("Is issued before the current time")]
             ELSE IF Before(expirationTime, n)
             THEN [isSpecimen |-> FALSE, err |-> Errorf("Is not valid anymore; was valid until %d")]
             ELSE [isSpecimen |-> FALSE, err |-> nil]

(***************************************************************************)
(* Strings as the source reads them                                        *)
(***************************************************************************)
Digits == {"0", "1", "2", "3", "4", "5", "6", "7", "8", "9"}

\* a text in the layout 2006-01-02 is the record of the calendar day it
\* names (days after 1970-01-01); any other text has valid = FALSE
DateString(d) == [valid |-> TRUE, day |-> d]
NoDateString == [valid |-> FALSE, day |-> 0]
\* time.Parse(YYYYMMDD_FORMAT, s): midnight UTC of the day, or an error
ParseYYYYMMDD(s) ==
    IF s.valid THEN [t |-> Time(s.day * Day, 0), err |-> nil]
               ELSE [t |-> Time(0, 0), err |-> Errorf("parsing time: cannot parse")]

\* a text in the layout RFC3339 is the record of the instant and the zone
\* offset it names; any other text has valid = FALSE
DateTimeString(s, o) == [valid |-> TRUE, sec |-> s, offset |-> o]
NoDateTimeString == [valid |-> FALSE, sec |-> 0, offset |-> 0]
\* time.Parse(time.RFC3339, s)
ParseRFC3339(s) ==
    IF s.valid THEN [t |-> Time(s.sec, s.offset), err |-> nil]
               ELSE [t |-> Time(0, 0), err |-> Errorf("parsing time: cannot parse")]

\* dateOfBirthRegex.FindStringSubmatch(value), the regular expression
\*   ^(?:((?:19|20)\d\d)(?:-(\d\d)(?:-(\d\d))?)?)?$
\* the whole match and the three groups, or nil when value does not match
\* a variant whose year is \d\d\d\d
IsYear_AnyCentury(v) ==
    /\ Len(v) >= 4
    /\ \A k \in 1..4 : v[k] \in Digits
IsYear(v) ==
    /\ Len(v) >= 4
    /\ \/ v[1] = "1" /\ v[2] = "9"
       \/ v[1] = "2" /\ v[2] = "0"
    /\ v[3] \in Digits
    /\ v[4] \in Digits
IsDashTwoDigits(v, i) ==
    /\ Len(v) >= i + 2
    /\ v[i] = "-"
    /\ v[i + 1] \in Digits
    /\ v[i + 2] \in Digits
dateOfBirthRegex(value) ==
    IF Len(value) = 0
    THEN <<value, << >>, << >>, << >> >>
    ELSE IF Len(value) = 4 /\ IsYear(value)
    THEN <<value, SubSeq(value, 1, 4), << >>, << >> >>
    ELSE IF Len(value) = 7 /\ IsYear(value) /\ IsDashTwoDigits(value, 5)
    THEN <<value, SubSeq(value, 1, 4), SubSeq(value, 6, 7), << >> >>
    ELSE IF Len(value) = 10 /\ IsYear(value) /\ IsDashTwoDigits(value, 5)
                            /\ IsDashTwoDigits(value, 8)
    THEN <<value, SubSeq(value, 1, 4), SubSeq(value, 6, 7), SubSeq(value, 9, 10)>>
    ELSE nil

parseDateOfBirth(value) ==
    LET res == dateOfBirthRegex(value)
    IN  IF Len(res) # 4
        THEN [year |-> << >>, month |-> << >>, day |-> << >>,
              err |-> Errorf("Did not conform to regex")]
        ELSE [year |-> res[2], month |-> res[3], day |-> res[4], err |-> nil]

containsString(list, target) == \E i \in 1..Len(list) : list[i] = target

(***************************************************************************)
(* The rules of a DCC                                                      *)
(***************************************************************************)
validateDateOfBirth(dob) ==
    LET r == parseDateOfBirth(dob)
    IN  IF r.err # nil THEN WrapPrefix(r.err, "Invalid date of birth") ELSE nil

validateName(name) ==
    IF name.StandardizedFamilyName = << >> /\ name.StandardizedGivenName = << >>
    THEN Errorf("Either the standardized family name or given name must be present")
    ELSE nil

\* a variant without the check for no statement at all
validateStatementAmount_NoZeroCheck(dcc) ==
    LET totalAmount == Len(dcc.Vaccinations) + Len(dcc.Tests) + Len(dcc.Recoveries)
    IN  IF totalAmount > 1
        THEN Errorf("Contains too many statements (%d vaccinations, %d tests and %d recoveries)")
        ELSE nil

validateStatementAmount(dcc) ==
    LET vaccAmount == Len(dcc.Vaccinations)
        testAmount == Len(dcc.Tests)
        recAmount == Len(dcc.Recoveries)
        totalAmount == vaccAmount + testAmount + recAmount
    IN  IF totalAmount = 0
        THEN Errorf("Contains no vaccination, test or recovery statements")
        ELSE IF totalAmount > 1
        THEN Errorf("Contains too many statements (%d vaccinations, %d tests and %d recoveries)")
        ELSE nil

\* a variant that wants more doses than the series has
validateVaccination_DoseNotGreater(vacc, r, n) ==
    IF vacc.DiseaseTargeted # DISEASE_TARGETED_COVID_19
    THEN Errorf("Disease targeted should be COVID-19")
    ELSE IF ~containsString(r.VaccineAllowedProducts, vacc.MedicinalProduct)
    THEN Errorf("Medicinal product is not accepted")
    ELSE IF vacc.DoseNumber <= vacc.TotalSeriesOfDoses
    THEN Errorf("Dose number is smaller than the specified total amount of doses")
    ELSE LET dov == ParseYYYYMMDD(vacc.DateOfVaccination)
         IN  IF dov.err # nil
             THEN Errorf("Date of vaccination could not be parsed")
             ELSE LET nowDate == UTC(Truncate(n, 24 * Hour))
                      vaccinationValidFrom ==
                          Add(dov.t, (r.VaccinationValidityDelayDays * 24) * Hour)
                  IN  IF Before(nowDate, vaccinationValidFrom)
                      THEN Errorf("Date of vaccination is before the delayed validity date")
                      ELSE nil

validateVaccination(vacc, r, n) ==
    IF vacc.DiseaseTargeted # DISEASE_TARGETED_COVID_19
    THEN Errorf("Disease targeted should be COVID-19")
    ELSE IF ~containsString(r.VaccineAllowedProducts, vacc.MedicinalProduct)
    THEN Errorf("Medicinal product is not accepted")
    ELSE IF vacc.DoseNumber < vacc.TotalSeriesOfDoses
    THEN Errorf("Dose number is smaller than the specified total amount of doses")
    ELSE LET dov == ParseYYYYMMDD(vacc.DateOfVaccination)
         IN  IF dov.err # nil
             THEN Errorf("Date of vaccination could not be parsed")
             ELSE LET nowDate == UTC(Truncate(n, 24 * Hour))
                      vaccinationValidFrom ==
                          Add(dov.t, (r.VaccinationValidityDelayDays * 24) * Hour)
                  IN  IF Before(nowDate, vaccinationValidFrom)
                      THEN Errorf("Date of vaccination is before the delayed validity date")
                      ELSE nil

\* a variant that rejects a test at the very end of its validity
validateTest_EndExcluded(test, r, n) ==
    IF test.DiseaseTargeted # DISEASE_TARGETED_COVID_19
    THEN Errorf("Disease targeted should be COVID-19")
    ELSE IF ~containsString(r.TestAllowedTypes, test.TypeOfTest)
    THEN Errorf("Type is not allowed")
    ELSE IF test.TestResult # TEST_RESULT_NOT_DETECTED
    THEN Errorf("Result should be negative (not detected)")
    ELSE LET doc == ParseRFC3339(test.DateTimeOfCollection)
         IN  IF doc.err # nil
             THEN Errorf("Time of collection could not be parsed")
             ELSE LET testExpirationTime == Add(doc.t, r.TestValidityHours * Hour)
                  IN  IF ~After(testExpirationTime, n)
                      THEN Errorf("Time of collection is more than %s ago")
                      ELSE IF Before(n, doc.t)
                      THEN Errorf("Time of collection is in the future")
                      ELSE nil

validateTest(test, r, n) ==
    IF test.DiseaseTargeted # DISEASE_TARGETED_COVID_19
    THEN Errorf("Disease targeted should be COVID-19")
    ELSE IF ~containsString(r.TestAllowedTypes, test.TypeOfTest)
    THEN Errorf("Type is not allowed")
    ELSE IF test.TestResult # TEST_RESULT_NOT_DETECTED
    THEN Errorf("Result should be negative (not detected)")
    ELSE LET doc == ParseRFC3339(test.DateTimeOfCollection)
         IN  IF doc.err # nil
             THEN Errorf("Time of collection could not be parsed")
             ELSE LET testValidityHours == r.TestValidityHours
                      testValidityDuration == testValidityHours * Hour
                      testExpirationTime == Add(doc.t, testValidityDuration)
                  IN  IF Before(testExpirationTime, n)
                      THEN Errorf("Time of collection is more than %s ago")
                      ELSE IF Before(n, doc.t)
                      THEN Errorf("Time of collection is in the future")
                      ELSE nil

\* a variant that takes the earlier of the two starts
validateRecovery_EarlierStart(rec, r, n) ==
    IF rec.DiseaseTargeted # DISEASE_TARGETED_COVID_19
    THEN Errorf("Disease targeted should be COVID-19")
    ELSE LET testDate == ParseYYYYMMDD(rec.DateOfFirstPositiveTest)
         IN  IF testDate.err # nil
             THEN Errorf("Date of first positive test could not be parsed")
             ELSE LET validFrom0 == Add(testDate.t, (r.RecoveryValidFromDays * 24) * Hour)
                      validUntil0 == Add(testDate.t, (r.RecoveryValidUntilDays * 24) * Hour)
                      specifiedValidFrom == ParseYYYYMMDD(rec.CertificateValidFrom)
                      validFrom ==
                          IF specifiedValidFrom.err = nil
                             /\ Before(specifiedValidFrom.t, validFrom0)
                          THEN specifiedValidFrom.t ELSE validFrom0
                      specifiedValidUntil == ParseYYYYMMDD(rec.CertificateValidUntil)
                      validUntil ==
                          IF specifiedValidUntil.err = nil
                             /\ Before(specifiedValidUntil.t, validUntil0)
                          THEN specifiedValidUntil.t ELSE validUntil0
                  IN  IF Before(validUntil, validFrom)
                      THEN Errorf("Valid until cannot be before valid from")
                      ELSE IF Before(n, validFrom)
                      THEN Errorf("Recovery is not yet valid")
                      ELSE IF Before(validUntil, n)
                      THEN Errorf("Recovery is not valid anymore")
                      ELSE nil

validateRecovery(rec, r, n) ==
    IF rec.DiseaseTargeted # DISEASE_TARGETED_COVID_19
    THEN Errorf("Disease targeted should be COVID-19")
    ELSE LET testDate == ParseYYYYMMDD(rec.DateOfFirstPositiveTest)
         IN  IF testDate.err # nil
             THEN Errorf("Date of first positive test could not be parsed")
             ELSE LET validFromDays == r.RecoveryValidFromDays
                      validUntilDays == r.RecoveryValidUntilDays
                      validFrom0 == Add(testDate.t, (validFromDays * 24) * Hour)
                      validUntil0 == Add(testDate.t, (validUntilDays * 24) * Hour)
                      specifiedValidFrom == ParseYYYYMMDD(rec.CertificateValidFrom)
                      validFrom ==
                          IF specifiedValidFrom.err = nil
                             /\ After(specifiedValidFrom.t, validFrom0)
                          THEN specifiedValidFrom.t ELSE validFrom0
                      specifiedValidUntil == ParseYYYYMMDD(rec.CertificateValidUntil)
                      validUntil ==
                          IF specifiedValidUntil.err = nil
                             /\ Before(specifiedValidUntil.t, validUntil0)
                          THEN specifiedValidUntil.t ELSE validUntil0
                  IN  IF Before(validUntil, validFrom)
                      THEN Errorf("Valid until cannot be before valid from")
                      ELSE IF Before(n, validFrom)
                      THEN Errorf("Recovery is not yet valid")
                      ELSE IF Before(validUntil, n)
                      THEN Errorf("Recovery is not valid anymore")
                      ELSE nil

\* the error of the first statement of a group that fails its rule, as the
\* range loops of validateDCC find it
RECURSIVE firstError(_, _)
firstError(errs, prefix) ==
    IF errs = << >> THEN nil
    ELSE IF Head(errs) # nil THEN WrapPrefix(Head(errs), prefix)
    ELSE firstError(Tail(errs), prefix)

validateDCC(dcc, r, n) ==
    LET dobErr == validateDateOfBirth(dcc.DateOfBirth)
        nameErr == validateName(dcc.Name)
        amountErr == validateStatementAmount(dcc)
        vaccErr == firstError([i \in 1..Len(dcc.Vaccinations) |->
                                  validateVaccination(dcc.Vaccinations[i], r, n)],
                              "Invalid vaccination statement")
        testErr == firstError([i \in 1..Len(dcc.Tests) |->
                                  validateTest(dcc.Tests[i], r, n)],
                              "Invalid test statement")
        recErr == firstError([i \in 1..Len(dcc.Recoveries) |->
                                 validateRecovery(dcc.Recoveries[i], r, n)],
                             "Invalid recovery statement")
    IN  IF dobErr # nil THEN WrapPrefix(dobErr, "Invalid date of birth")
        ELSE IF nameErr # nil THEN WrapPrefix(nameErr, "Invalid name")
        ELSE IF amountErr # nil THEN WrapPrefix(amountErr, "Invalid statement amount")
        ELSE IF vaccErr # nil THEN vaccErr
        ELSE IF testErr # nil THEN testErr
        ELSE IF recErr # nil THEN recErr
        ELSE nil

(***************************************************************************)
(* buildVerificationDetails, verifyEuropean                                *)
(***************************************************************************)
\* a variant that leaves an absent day of birth empty
buildVerificationDetails_DayNotMarked(h, isSpecimen) ==
    LET dob == parseDateOfBirth(h.DCC.DateOfBirth)
        given == h.DCC.Name.StandardizedGivenName
        family == h.DCC.Name.StandardizedFamilyName
    IN  IF dob.err # nil
        THEN [details |-> nil, err |-> WrapPrefix(dob.err, "Could not parse date of birth")]
        ELSE [details |-> << [CredentialVersion |-> "1",
                              IsSpecimen |-> IF isSpecimen THEN "1" ELSE "0",
                              IssuerCountryCode |-> "",
                              BirthMonth |-> IF dob.month = << >> THEN DOB_EMPTY_VALUE
                                                                  ELSE dob.month,
                              BirthDay |-> dob.day,
                              FirstNameInitial |-> IF Len(given) > 0 THEN SubSeq(given, 1, 1)
                                                                     ELSE << >>,
                              LastNameInitial |-> IF Len(family) > 0 THEN SubSeq(family, 1, 1)
                                                                     ELSE << >>] >>,
              err |-> nil]
\* a variant that takes both initials from the given name
buildVerificationDetails_GivenNameTwice(h, isSpecimen) ==
    LET dob == parseDateOfBirth(h.DCC.DateOfBirth)
        given == h.DCC.Name.StandardizedGivenName
    IN  IF dob.err # nil
        THEN [details |-> nil, err |-> WrapPrefix(dob.err, "Could not parse date of birth")]
        ELSE [details |-> << [CredentialVersion |-> "1",
                              IsSpecimen |-> IF isSpecimen THEN "1" ELSE "0",
                              IssuerCountryCode |-> "",
                              BirthMonth |-> IF dob.month = << >> THEN DOB_EMPTY_VALUE
                                                                  ELSE dob.month,
                              BirthDay |-> IF dob.day = << >> THEN DOB_EMPTY_VALUE
                                                              ELSE dob.day,
                              FirstNameInitial |-> IF Len(given) > 0 THEN SubSeq(given, 1, 1)
                                                                     ELSE << >>,
                              LastNameInitial |-> IF Len(given) > 0 THEN SubSeq(given, 1, 1)
                                                                    ELSE << >>] >>,
              err |-> nil]

buildVerificationDetails(h, isSpecimen) ==
    LET isSpecimenStr == IF isSpecimen THEN "1" ELSE "0"
        dob == parseDateOfBirth(h.DCC.DateOfBirth)
        birthMonth == IF dob.month = << >> THEN DOB_EMPTY_VALUE ELSE dob.month
        birthDay == IF dob.day = << >> THEN DOB_EMPTY_VALUE ELSE dob.day
        given == h.DCC.Name.StandardizedGivenName
        family == h.DCC.Name.StandardizedFamilyName
        firstNameInitial == IF Len(given) > 0 THEN SubSeq(given, 1, 1) ELSE << >>
        familyNameInitial == IF Len(family) > 0 THEN SubSeq(family, 1, 1) ELSE << >>
    IN  IF dob.err # nil
        THEN [details |-> nil, err |-> WrapPrefix(dob.err, "Could not parse date of birth")]
        ELSE [details |-> << [CredentialVersion |-> "1",
                              IsSpecimen |-> isSpecimenStr,
                              IssuerCountryCode |-> "",
                              BirthMonth |-> birthMonth,
                              BirthDay |-> birthDay,
                              FirstNameInitial |-> firstNameInitial,
                              LastNameInitial |-> familyNameInitial] >>,
              err |-> nil]

\* europeanVerifier.VerifyQREncoded(proofQREncoded): the external signature
\* verifier; it yields the health certificate the payload carries when the
\* payload is an international one whose signature verifies
VerifyQREncoded(p, h) ==
    IF p.shape = "international" /\ p.verifies
    THEN [hcert |-> <<h>>, err |-> nil]
    ELSE [hcert |-> nil, err |-> Errorf("Could not verify QR encoded proof")]

\* a variant that validates the metadata before it looks at the issuer
verifyEuropean_MetadataFirst(p, h, r, n) ==
    LET v == VerifyQREncoded(p, h)
    IN  IF v.err # nil
        THEN [details |-> nil, isNLDCC |-> FALSE, err |-> v.err]
        ELSE LET hc == validateHcert(v.hcert[1], n)
                 dccErr == validateDCC(v.hcert[1].DCC, r, n)
                 built == buildVerificationDetails(v.hcert[1], hc.isSpecimen)
             IN  IF hc.err # nil
                 THEN [details |-> nil, isNLDCC |-> FALSE,
                       err |-> WrapPrefix(hc.err, "Could not validate health certificate")]
                 ELSE IF v.hcert[1].Issuer = NL_COUNTRY_CODE
                 THEN [details |-> nil, isNLDCC |-> TRUE, err |-> nil]
                 ELSE IF dccErr # nil
                 THEN [details |-> nil, isNLDCC |-> FALSE,
                       err |-> WrapPrefix(dccErr, "Could not validate DCC")]
                 ELSE IF built.err # nil
                 THEN [details |-> nil, isNLDCC |-> FALSE, err |-> built.err]
                 ELSE [details |-> built.details, isNLDCC |-> FALSE, err |-> nil]
\* a variant that drops the error of validateHcert
verifyEuropean_MetadataErrorDropped(p, h, r, n) ==
    LET v == VerifyQREncoded(p, h)
    IN  IF v.err # nil
        THEN [details |-> nil, isNLDCC |-> FALSE, err |-> v.err]
        ELSE IF v.hcert[1].Issuer = NL_COUNTRY_CODE
        THEN [details |-> nil, isNLDCC |-> TRUE, err |-> nil]
        ELSE LET hc == validateHcert(v.hcert[1], n)
                 dccErr == validateDCC(v.hcert[1].DCC, r, n)
                 built == buildVerificationDetails(v.hcert[1], hc.isSpecimen)
             IN  IF hc.err # nil
                 THEN [details |-> nil, isNLDCC |-> FALSE, err |-> nil]
                 ELSE IF dccErr # nil
                 THEN [details |-> nil, isNLDCC |-> FALSE,
                       err |-> WrapPrefix(dccErr, "Could not validate DCC")]
                 ELSE IF built.err # nil
                 THEN [details |-> nil, isNLDCC |-> FALSE, err |-> built.err]
                 ELSE [details |-> built.details, isNLDCC |-> FALSE, err |-> nil]

\* a variant that drops the error of the signature verifier
verifyEuropean_SignatureErrorDropped(p, h, r, n) ==
    LET v == VerifyQREncoded(p, h)
    IN  IF v.err # nil
        THEN [details |-> nil, isNLDCC |-> FALSE, err |-> nil]
        ELSE IF v.hcert[1].Issuer = NL_COUNTRY_CODE
        THEN [details |-> nil, isNLDCC |-> TRUE, err |-> nil]
        ELSE LET hc == validateHcert(v.hcert[1], n)
                 dccErr == validateDCC(v.hcert[1].DCC, r, n)
                 built == buildVerificationDetails(v.hcert[1], hc.isSpecimen)
             IN  IF hc.err # nil
                 THEN [details |-> nil, isNLDCC |-> FALSE,
                       err |-> WrapPrefix(hc.err, "Could not validate health certificate")]
                 ELSE IF dccErr # nil
                 THEN [details |-> nil, isNLDCC |-> FALSE,
                       err |-> WrapPrefix(dccErr, "Could not validate DCC")]
                 ELSE IF built.err # nil
                 THEN [details |-> nil, isNLDCC |-> FALSE, err |-> built.err]
                 ELSE [details |-> built.details, isNLDCC |-> FALSE, err |-> nil]
\* a variant that does not validate the DCC of a specimen
verifyEuropean_SpecimenSkipsDCC(p, h, r, n) ==
    LET v == VerifyQREncoded(p, h)
    IN  IF v.err # nil
        THEN [details |-> nil, isNLDCC |-> FALSE, err |-> v.err]
        ELSE IF v.hcert[1].Issuer = NL_COUNTRY_CODE
        THEN [details |-> nil, isNLDCC |-> TRUE, err |-> nil]
        ELSE LET hc == validateHcert(v.hcert[1], n)
                 dccErr == IF hc.isSpecimen THEN nil
                           ELSE validateDCC(v.hcert[1].DCC, r, n)
                 built == buildVerificationDetails(v.hcert[1], hc.isSpecimen)
             IN  IF hc.err # nil
                 THEN [details |-> nil, isNLDCC |-> FALSE,
                       err |-> WrapPrefix(hc.err, "Could not validate health certificate")]
                 ELSE IF dccErr # nil
                 THEN [details |-> nil, isNLDCC |-> FALSE,
                       err |-> WrapPrefix(dccErr, "Could not validate DCC")]
                 ELSE IF built.err # nil
                 THEN [details |-> nil, isNLDCC |-> FALSE, err |-> built.err]
                 ELSE [details |-> built.details, isNLDCC |-> FALSE, err |-> nil]
verifyEuropean(p, h, r, n) ==
    LET v == VerifyQREncoded(p, h)
    IN  IF v.err # nil
        THEN [details |-> nil, isNLDCC |-> FALSE, err |-> v.err]
        ELSE IF v.hcert[1].Issuer = NL_COUNTRY_CODE
        THEN [details |-> nil, isNLDCC |-> TRUE, err |-> nil]
        ELSE LET hc == validateHcert(v.hcert[1], n)
                 dccErr == validateDCC(v.hcert[1].DCC, r, n)
                 built == buildVerificationDetails(v.hcert[1], hc.isSpecimen)
             IN  IF hc.err # nil
                 THEN [details |-> nil, isNLDCC |-> FALSE,
                       err |-> WrapPrefix(hc.err, "Could not validate health certificate")]
                 ELSE IF dccErr # nil
                 THEN [details |-> nil, isNLDCC |-> FALSE,
                       err |-> WrapPrefix(dccErr, "Could not validate DCC")]
                 ELSE IF built.err # nil
                 THEN [details |-> nil, isNLDCC |-> FALSE, err |-> built.err]
                 ELSE [details |-> built.details, isNLDCC |-> FALSE, err |-> nil]

(***************************************************************************)
(* The domestic path and the dispatcher                                    *)
(***************************************************************************)
VERIFICATION_SUCCESS == "SUCCESS"
VERIFICATION_FAILED_ERROR == "FAILED_ERROR"
VERIFICATION_FAILED_UNRECOGNIZED_PREFIX == "FAILED_UNRECOGNIZED_PREFIX"
VerificationStatuses ==
    {VERIFICATION_SUCCESS, VERIFICATION_FAILED_ERROR,
     VERIFICATION_FAILED_UNRECOGNIZED_PREFIX}

\* a decimal text is the record of the number it writes; any other text has
\* valid = FALSE
DecimalString(k) == [valid |-> TRUE, value |-> k]
NoDecimalString == [valid |-> FALSE, value |-> 0]

\* a variant that exchanges the two birth fragments
attributesToVerificationDetails_BirthSwapped(attributes) ==
    [CredentialVersion |-> "2",
     IsSpecimen |-> attributes.isSpecimen,
     IssuerCountryCode |-> "NL",
     BirthMonth |-> attributes.birthDay,
     BirthDay |-> attributes.birthMonth,
     FirstNameInitial |-> attributes.firstNameInitial,
     LastNameInitial |-> attributes.lastNameInitial]

attributesToVerificationDetails(attributes) ==
    [CredentialVersion |-> "2",
     IsSpecimen |-> attributes.isSpecimen,
     IssuerCountryCode |-> "NL",
     BirthMonth |-> attributes.birthMonth,
     BirthDay |-> attributes.birthDay,
     FirstNameInitial |-> attributes.firstNameInitial,
     LastNameInitial |-> attributes.lastNameInitial]

\* a variant whose window is closed at its end
verifyDomestic_EndIncluded(p, n) ==
    IF ~p.verifies
    THEN [details |-> nil, err |-> Errorf("Could not verify disclosure proof")]
    ELSE IF ~p.attributes.validFrom.valid
    THEN [details |-> nil, err |-> Errorf("Could not parse validFrom")]
    ELSE IF ~p.attributes.validForHours.valid
    THEN [details |-> nil, err |-> Errorf("Could not parse validForHours")]
    ELSE LET validFrom == p.attributes.validFrom.value
             validUntil == validFrom + p.attributes.validForHours.value * 3600
         IN  IF n.sec < validFrom \/ n.sec > validUntil
             THEN [details |-> nil, err |-> Errorf("The credential is not valid at this time")]
             ELSE [details |-> <<attributesToVerificationDetails(p.attributes)>>,
                   err |-> nil]

verifyDomestic(p, n) ==
    IF ~p.verifies
    THEN [details |-> nil, err |-> Errorf("Could not verify disclosure proof")]
    ELSE IF ~p.attributes.validFrom.valid
    THEN [details |-> nil, err |-> Errorf("Could not parse validFrom")]
    ELSE IF ~p.attributes.validForHours.valid
    THEN [details |-> nil, err |-> Errorf("Could not parse validForHours")]
    ELSE LET validFrom == p.attributes.validFrom.value
             validUntil == validFrom + p.attributes.validForHours.value * 3600
         IN  IF n.sec < validFrom \/ n.sec >= validUntil
             THEN [details |-> nil, err |-> Errorf("The credential is not valid at this time")]
             ELSE [details |-> <<attributesToVerificationDetails(p.attributes)>>,
                   err |-> nil]

VerificationResult(status, details, error) ==
    [Status |-> status, Details |-> details, Error |-> error]

\* passThroughStatus: the status given to an international certificate of
\* the local issuer, which is neither a failure nor carries details
Verify(p, h, r, n, passThroughStatus) ==
    IF p.shape = "domestic"
    THEN LET d == verifyDomestic(p, n)
         IN  IF d.err # nil
             THEN VerificationResult(VERIFICATION_FAILED_ERROR, nil, d.err)
             ELSE VerificationResult(VERIFICATION_SUCCESS, d.details, nil)
    ELSE IF p.shape = "international"
    THEN LET e == verifyEuropean(p, h, r, n)
         IN  IF e.err # nil
             THEN VerificationResult(VERIFICATION_FAILED_ERROR, nil, e.err)
             ELSE IF e.isNLDCC
             THEN VerificationResult(passThroughStatus, nil, nil)
             ELSE VerificationResult(VERIFICATION_SUCCESS, e.details, nil)
    ELSE VerificationResult(VERIFICATION_FAILED_UNRECOGNIZED_PREFIX, nil, nil)

(***************************************************************************)
(* The inputs of a call                                                    *)
(***************************************************************************)
SeqsUpTo(S, k) == UNION {[1..j -> S] : j \in 0..k}

GivenName == <<"J", "O", "H", "N">>
FamilyName == <<"D", "O", "E">>
Names == {[StandardizedFamilyName |-> f, StandardizedGivenName |-> g] :
              f \in {<< >>, FamilyName}, g \in {<< >>, GivenName}}
DefaultName == [StandardizedFamilyName |-> FamilyName, StandardizedGivenName |-> GivenName]

Products == <<"EU/1/20/1528", "EU/1/20/1507">>
TestTypes == <<"LP6464-4", "LP217198-3">>
DefaultRules ==
    [VaccineAllowedProducts |-> Products,
     TestAllowedTypes |-> TestTypes,
     VaccinationValidityDelayDays |-> 0,
     TestValidityHours |-> 48,
     RecoveryValidFromDays |-> 0,
     RecoveryValidUntilDays |-> 1]

Vaccination(disease, product, dose, total, date) ==
    [DiseaseTargeted |-> disease, MedicinalProduct |-> product, DoseNumber |-> dose,
     TotalSeriesOfDoses |-> total, DateOfVaccination |-> date]
Test(disease, type, res, collected) ==
    [DiseaseTargeted |-> disease, TypeOfTest |-> type, TestResult |-> res,
     DateTimeOfCollection |-> collected]
Recovery(disease, tested, from, until) ==
    [DiseaseTargeted |-> disease, DateOfFirstPositiveTest |-> tested,
     CertificateValidFrom |-> from, CertificateValidUntil |-> until]
DCC(dob, name, vaccs, tests, recs) ==
    [DateOfBirth |-> dob, Name |-> name, Vaccinations |-> vaccs, Tests |-> tests,
     Recoveries |-> recs]
HealthCertificate(issuer, iat, exp, dcc) ==
    [Issuer |-> issuer, IssuedAt |-> iat, ExpirationTime |-> exp, DCC |-> dcc]

Diseases == {DISEASE_TARGETED_COVID_19, "OTHER"}
Issuers == {NL_COUNTRY_CODE, "DE"}
EpochSecs == 40..MaxEpochSec

\* statements that pass, and statements that fail, their rule under
\* DefaultRules at any time of day 0
GoodVaccination == Vaccination(DISEASE_TARGETED_COVID_19, Products[1], 2, 2, DateString(0))
BadVaccination == Vaccination(DISEASE_TARGETED_COVID_19, Products[1], 1, 2, DateString(0))
LateVaccination == Vaccination(DISEASE_TARGETED_COVID_19, Products[1], 2, 2, DateString(1))
GoodTest == Test(DISEASE_TARGETED_COVID_19, TestTypes[1], TEST_RESULT_NOT_DETECTED,
                 DateTimeString(0, 0))
BadTest == Test(DISEASE_TARGETED_COVID_19, TestTypes[1], "260373001", DateTimeString(0, 0))
GoodRecovery == Recovery(DISEASE_TARGETED_COVID_19, DateString(0), NoDateString, NoDateString)
BadRecovery == Recovery("OTHER", DateString(0), NoDateString, NoDateString)

DateOfBirth == <<"1", "9", "9", "0", "-", "1", "0", "-", "2", "0">>
DefaultDCC == DCC(DateOfBirth, DefaultName, <<GoodVaccination>>, << >>, << >>)
DefaultHcert == HealthCertificate("DE", 41, 43, DefaultDCC)

DefaultAttributes ==
    [isSpecimen |-> "0", isPaperProof |-> "0",
     validFrom |-> DecimalString(0), validForHours |-> DecimalString(40),
     firstNameInitial |-> <<"A">>, lastNameInitial |-> <<"R">>,
     birthDay |-> <<"2", "0">>, birthMonth |-> <<"1", "0">>]
DefaultPayload == [shape |-> "international", verifies |-> TRUE, attributes |-> DefaultAttributes]
DefaultNow == Time(42, 0)

Start == pc = "start" /\ result = nil
Call(name, value) ==
    /\ pc = "start"
    /\ pc' = name
    /\ result' = value
    /\ UNCHANGED <<payload, hcert, rules, now>>

(***************************************************************************)
(* SpecHcert: one call of validateHcert                                    *)
(***************************************************************************)
InitHcert ==
    /\ Start
    /\ payload = DefaultPayload
    /\ rules = DefaultRules
    /\ \E iss \in Issuers, iat \in EpochSecs, exp \in EpochSecs :
          hcert = HealthCertificate(iss, iat, exp, DefaultDCC)
    /\ \E s \in EpochSecs : now = Time(s, 0)

ValidateHcert == Call("validateHcert", validateHcert(hcert, now))

NextHcert == ValidateHcert
SpecHcert == InitHcert /\ [][NextHcert]_vars

(***************************************************************************)
(* SpecDob: one call of parseDateOfBirth or validateDateOfBirth            *)
(***************************************************************************)
DobAlphabet == {"0", "1", "2", "8", "9", "-", "x"}
TailAlphabet == {"1", "-", "x"}
DobYears == {<<"1", "9", "0", "0">>, <<"1", "9", "9", "9">>, <<"2", "0", "0", "0">>,
             <<"2", "0", "9", "9">>, <<"1", "8", "9", "9">>, <<"2", "1", "0", "0">>,
             <<"0", "0", "0", "1">>, <<"1", "9", "x", "0">>}
DatesOfBirth ==
    SeqsUpTo(DobAlphabet, MaxDobLen)
        \cup {y \o t : y \in DobYears, t \in SeqsUpTo(TailAlphabet, MaxTailLen)}

InitDob ==
    /\ Start
    /\ payload = DefaultPayload
    /\ rules = DefaultRules
    /\ now = DefaultNow
    /\ \E dob \in DatesOfBirth :
          hcert = HealthCertificate("DE", 41, 43,
                      DCC(dob, DefaultName, <<GoodVaccination>>, << >>, << >>))

ParseDateOfBirth == Call("parseDateOfBirth", parseDateOfBirth(hcert.DCC.DateOfBirth))
ValidateDateOfBirth == Call("validateDateOfBirth", validateDateOfBirth(hcert.DCC.DateOfBirth))

NextDob == ParseDateOfBirth \/ ValidateDateOfBirth
SpecDob == InitDob /\ [][NextDob]_vars

(***************************************************************************)
(* SpecDCC: one call of validateStatementAmount, validateName, validateDCC *)
(***************************************************************************)
InitDCC ==
    /\ Start
    /\ payload = DefaultPayload
    /\ rules = DefaultRules
    /\ now = DefaultNow
    /\ \E dob \in {<< >>, DateOfBirth, <<"x">>}, name \in Names,
          vaccs \in SeqsUpTo({GoodVaccination, BadVaccination}, MaxStatements),
          tests \in SeqsUpTo({GoodTest, BadTest}, MaxStatements),
          recs \in SeqsUpTo({GoodRecovery, BadRecovery}, MaxStatements) :
          hcert = HealthCertificate("DE", 41, 43, DCC(dob, name, vaccs, tests, recs))

ValidateStatementAmount == Call("validateStatementAmount", validateStatementAmount(hcert.DCC))
ValidateName == Call("validateName", validateName(hcert.DCC.Name))
ValidateDCC == Call("validateDCC", validateDCC(hcert.DCC, rules, now))

NextDCC == ValidateStatementAmount \/ ValidateName \/ ValidateDCC
SpecDCC == InitDCC /\ [][NextDCC]_vars

(***************************************************************************)
(* SpecTest: one call of validateTest on the test statement of the DCC     *)
(***************************************************************************)
TestNows == {h * Hour + e : h \in 0..MaxTestHours, e \in {-1, 0, 1}} \cap Nat
Collections == {DateTimeString(0, 0), DateTimeString(1, 0 - Hour),
                DateTimeString(2 * Hour, 2 * Hour), NoDateTimeString}

InitTest ==
    /\ Start
    /\ payload = DefaultPayload
    /\ \E allowed \in {<< >>, TestTypes}, hours \in {0, 1, 48} :
          rules = [DefaultRules EXCEPT !.TestAllowedTypes = allowed,
                                       !.TestValidityHours = hours]
    /\ \E disease \in Diseases, type \in {TestTypes[2], "LP0000-0"},
          res \in {TEST_RESULT_NOT_DETECTED, "260373001"}, collected \in Collections :
          hcert = HealthCertificate("DE", 41, 43,
                      DCC(DateOfBirth, DefaultName, << >>,
                          <<Test(disease, type, res, collected)>>, << >>))
    /\ \E s \in TestNows : now = Time(s, 0)

ValidateTest == Call("validateTest", validateTest(hcert.DCC.Tests[1], rules, now))

NextTest == ValidateTest
SpecTest == InitTest /\ [][NextTest]_vars

(***************************************************************************)
(* SpecVaccination: one call of validateVaccination                        *)
(***************************************************************************)
Days == 0..MaxDay
DateStrings == {DateString(d) : d \in Days} \cup {NoDateString}
NowDays == 0..(MaxDay + MaxDelayDays)
Zones == {0, 0 - 5 * Hour}

InitVaccination ==
    /\ Start
    /\ payload = DefaultPayload
    /\ \E allowed \in {<< >>, Products}, delay \in 0..MaxDelayDays :
          rules = [DefaultRules EXCEPT !.VaccineAllowedProducts = allowed,
                                       !.VaccinationValidityDelayDays = delay]
    /\ \E disease \in Diseases, product \in {Products[2], "EU/0/00/0000"},
          dose \in 0..MaxDose, total \in 0..MaxDose, date \in DateStrings :
          hcert = HealthCertificate("DE", 41, 43,
                      DCC(DateOfBirth, DefaultName,
                          <<Vaccination(disease, product, dose, total, date)>>,
                          << >>, << >>))
    /\ \E d \in NowDays, tod \in {0, 12 * Hour, Day - 1}, zone \in Zones :
          now = Time(d * Day + tod, zone)

ValidateVaccination ==
    Call("validateVaccination", validateVaccination(hcert.DCC.Vaccinations[1], rules, now))

NextVaccination == ValidateVaccination
SpecVaccination == InitVaccination /\ [][NextVaccination]_vars

(***************************************************************************)
(* SpecRecovery: one call of validateRecovery                              *)
(***************************************************************************)
InitRecovery ==
    /\ Start
    /\ payload = DefaultPayload
    /\ \E from \in 0..MaxDelayDays, until \in 0..(MaxDelayDays + 1) :
          rules = [DefaultRules EXCEPT !.RecoveryValidFromDays = from,
                                       !.RecoveryValidUntilDays = until]
    /\ \E disease \in Diseases, tested \in {DateString(0), DateString(1), NoDateString},
          from \in DateStrings, until \in DateStrings :
          hcert = HealthCertificate("DE", 41, 43,
                      DCC(DateOfBirth, DefaultName, << >>, << >>,
                          <<Recovery(disease, tested, from, until)>>))
    /\ \E d \in NowDays, tod \in {0, 1, Day - 1} : now = Time(d * Day + tod, 0)

ValidateRecovery ==
    Call("validateRecovery", validateRecovery(hcert.DCC.Recoveries[1], rules, now))

NextRecovery == ValidateRecovery
SpecRecovery == InitRecovery /\ [][NextRecovery]_vars

(***************************************************************************)
(* Spec: one call of verifyEuropean, or of Verify, on a scanned payload    *)
(***************************************************************************)
CertificateDCCs ==
    {DCC(dob, name, st[1], st[2], st[3]) :
        dob \in {DateOfBirth, <<"1", "9", "9", "0">>, <<"9", "0">>},
        name \in {DefaultName,
                  [StandardizedFamilyName |-> << >>, StandardizedGivenName |-> << >>]},
        st \in {<< << >>, << >>, << >> >>,
                << <<GoodVaccination>>, << >>, << >> >>,
                << <<BadVaccination>>, << >>, << >> >>,
                << <<LateVaccination>>, << >>, << >> >>,
                << << >>, <<GoodTest>>, << >> >>,
                << << >>, <<BadTest>>, << >> >>,
                << << >>, << >>, <<GoodRecovery>> >>,
                << << >>, << >>, <<BadRecovery>> >>,
                << <<GoodVaccination>>, <<GoodTest>>, << >> >>}}

DomesticAttributes ==
    {[DefaultAttributes EXCEPT !.validFrom = from, !.validForHours = hours,
                               !.isSpecimen = specimen] :
        from \in {DecimalString(0), DecimalString(42), DecimalString(43), NoDecimalString},
        hours \in {DecimalString(0), DecimalString(40), NoDecimalString},
        specimen \in {"0", "1"}}

Init ==
    /\ Start
    /\ rules = DefaultRules
    /\ \E s \in EpochSecs : now = Time(s, 0)
    /\ \/ /\ \E v \in BOOLEAN, a \in DomesticAttributes :
                payload = [shape |-> "domestic", verifies |-> v, attributes |-> a]
          /\ hcert = DefaultHcert
       \/ /\ \E v \in BOOLEAN :
                payload = [shape |-> "international", verifies |-> v,
                           attributes |-> DefaultAttributes]
          /\ \E iss \in Issuers, iat \in EpochSecs, exp \in EpochSecs,
                dcc \in CertificateDCCs :
                hcert = HealthCertificate(iss, iat, exp, dcc)
       \/ /\ payload = [shape |-> "unrecognized", verifies |-> FALSE,
                        attributes |-> DefaultAttributes]
          /\ hcert = DefaultHcert

VerifyEuropeanCall ==
    /\ payload.shape = "international"
    /\ Call("verifyEuropean", verifyEuropean(payload, hcert, rules, now))

VerifyCall ==
    \E status \in VerificationStatuses :
        Call("Verify", Verify(payload, hcert, rules, now, status))

Next == VerifyEuropeanCall \/ VerifyCall
Spec == Init /\ [][Next]_vars

(***************************************************************************)
(* Properties                                                              *)
(***************************************************************************)
Max(a, b) == IF a >= b THEN a ELSE b
Min(a, b) == IF a <= b THEN a ELSE b

TotalAmount ==
    Len(hcert.DCC.Vaccinations) + Len(hcert.DCC.Tests) + Len(hcert.DCC.Recoveries)
DobAndNameValid ==
    /\ hcert.DCC.DateOfBirth \in {<< >>, DateOfBirth}
    /\ \/ hcert.DCC.Name.StandardizedFamilyName # << >>
       \/ hcert.DCC.Name.StandardizedGivenName # << >>
EveryStatementGood ==
    /\ \A i \in 1..Len(hcert.DCC.Vaccinations) : hcert.DCC.Vaccinations[i] = GoodVaccination
    /\ \A i \in 1..Len(hcert.DCC.Tests) : hcert.DCC.Tests[i] = GoodTest
    /\ \A i \in 1..Len(hcert.DCC.Recoveries) : hcert.DCC.Recoveries[i] = GoodRecovery

\* C1: validateStatementAmount succeeds exactly when the three groups hold
\* one statement in total; validateDCC of a DCC with a valid date of birth
\* and name fails on the statement amount for a total of 0 and for a total of
\* 2 or more, whatever the statements are, and succeeds on a single statement
\* that passes its rule.
C1_ExactlyOneStatement ==
    /\ pc = "validateStatementAmount" => (result = nil <=> TotalAmount = 1)
    /\ pc = "validateDCC" /\ DobAndNameValid =>
          /\ TotalAmount # 1 => result # nil /\ result[1] = "Invalid statement amount"
          /\ TotalAmount = 1 /\ EveryStatementGood => result = nil
          /\ result = nil => TotalAmount = 1
C1_Witness ==
    /\ pc = "validateDCC"
    /\ DobAndNameValid
    /\ EveryStatementGood
    /\ TotalAmount = 2
    /\ result # nil

TestStatement == hcert.DCC.Tests[1]
TestPassesCodes ==
    /\ TestStatement.DiseaseTargeted = DISEASE_TARGETED_COVID_19
    /\ \E i \in 1..Len(rules.TestAllowedTypes) :
          rules.TestAllowedTypes[i] = TestStatement.TypeOfTest
    /\ TestStatement.TestResult = TEST_RESULT_NOT_DETECTED
    /\ TestStatement.DateTimeOfCollection.valid
CollectionSec == TestStatement.DateTimeOfCollection.sec
TestWindowSec == rules.TestValidityHours * 3600

\* C2 as stated: validateTest succeeds exactly in the half-open window
\* c <= now < c + TestValidityHours hours.
C2_HalfOpenWindow ==
    pc = "validateTest" /\ TestPassesCodes =>
        (result = nil <=> CollectionSec <= now.sec /\ now.sec < CollectionSec + TestWindowSec)
\* C2 amended: validateTest succeeds exactly in the closed window
\* c <= now <= c + TestValidityHours hours; with TestValidityHours = 48 a
\* collection 10 hours before now passes and one 50 hours before now fails.
C2_ClosedWindow ==
    pc = "validateTest" /\ TestPassesCodes =>
        /\ result = nil <=>
              CollectionSec <= now.sec /\ now.sec <= CollectionSec + TestWindowSec
        /\ rules.TestValidityHours = 48 /\ now.sec - CollectionSec = 10 * 3600
              => result = nil
        /\ rules.TestValidityHours = 48 /\ now.sec - CollectionSec = 50 * 3600
              => result # nil
C2_Witness ==
    /\ pc = "validateTest"
    /\ TestPassesCodes
    /\ rules.TestValidityHours = 48
    /\ now.sec = CollectionSec + TestWindowSec
    /\ result = nil

VaccinationStatement == hcert.DCC.Vaccinations[1]
VaccinationPassesCodes ==
    /\ VaccinationStatement.DiseaseTargeted = DISEASE_TARGETED_COVID_19
    /\ \E i \in 1..Len(rules.VaccineAllowedProducts) :
          rules.VaccineAllowedProducts[i] = VaccinationStatement.MedicinalProduct
DoseError == <<"Dose number is smaller than the specified total amount of doses">>

\* C3: for a vaccination with the COVID-19 code and an allowed product, the
\* dose error is returned exactly when doseNumber < totalSeriesOfDoses; equal
\* and greater dose numbers pass the dose rule.
C3_DoseRule ==
    pc = "validateVaccination" /\ VaccinationPassesCodes =>
        (result = DoseError <=>
            VaccinationStatement.DoseNumber < VaccinationStatement.TotalSeriesOfDoses)
C3_Witness ==
    /\ pc = "validateVaccination"
    /\ VaccinationPassesCodes
    /\ VaccinationStatement.DoseNumber + 1 = VaccinationStatement.TotalSeriesOfDoses
    /\ result = DoseError

\* C4: a vaccination that passes the disease, product and dose checks and
\* whose date D parses is accepted exactly when the UTC calendar day of now
\* is on or after D + VaccinationValidityDelayDays, at every time of day and
\* in every time zone of now.
C4_UTCDay ==
    pc = "validateVaccination" /\ VaccinationPassesCodes
        /\ VaccinationStatement.DoseNumber >= VaccinationStatement.TotalSeriesOfDoses
        /\ VaccinationStatement.DateOfVaccination.valid =>
        (result = nil <=>
            now.sec \div 86400 >= VaccinationStatement.DateOfVaccination.day
                                     + rules.VaccinationValidityDelayDays)
\* accepted at 00:00 UTC of day D + delay, when the local day of now is
\* still the day before
C4_Witness ==
    /\ pc = "validateVaccination"
    /\ VaccinationPassesCodes
    /\ VaccinationStatement.DoseNumber >= VaccinationStatement.TotalSeriesOfDoses
    /\ VaccinationStatement.DateOfVaccination.valid
    /\ rules.VaccinationValidityDelayDays > 0
    /\ now.offset < 0
    /\ now.sec = (VaccinationStatement.DateOfVaccination.day
                     + rules.VaccinationValidityDelayDays) * 86400
    /\ result = nil

RecoveryStatement == hcert.DCC.Recoveries[1]
RecoveryParses ==
    /\ RecoveryStatement.DiseaseTargeted = DISEASE_TARGETED_COVID_19
    /\ RecoveryStatement.DateOfFirstPositiveTest.valid
PolicyStartDay == RecoveryStatement.DateOfFirstPositiveTest.day + rules.RecoveryValidFromDays
PolicyEndDay == RecoveryStatement.DateOfFirstPositiveTest.day + rules.RecoveryValidUntilDays
RecoveryStartDay ==
    IF RecoveryStatement.CertificateValidFrom.valid
    THEN Max(PolicyStartDay, RecoveryStatement.CertificateValidFrom.day)
    ELSE PolicyStartDay
RecoveryEndDay ==
    IF RecoveryStatement.CertificateValidUntil.valid
    THEN Min(PolicyEndDay, RecoveryStatement.CertificateValidUntil.day)
    ELSE PolicyEndDay

\* C5: a recovery with the COVID-19 code and a parseable test date T is
\* accepted exactly when now lies in the closed window from
\* max(T + RecoveryValidFromDays, certificateValidFrom) to
\* min(T + RecoveryValidUntilDays, certificateValidUntil) (midnights UTC, an
\* unparseable certificate bound ignored) and that window is not empty; an
\* empty window is reported as such.
C5_IntersectedWindow ==
    pc = "validateRecovery" /\ RecoveryParses =>
        /\ result = nil <=>
              /\ RecoveryStartDay <= RecoveryEndDay
              /\ RecoveryStartDay * 86400 <= now.sec
              /\ now.sec <= RecoveryEndDay * 86400
        /\ RecoveryEndDay < RecoveryStartDay
              => result = <<"Valid until cannot be before valid from">>
\* now is inside the policy window but before the later start of the
\* certificate
C5_Witness ==
    /\ pc = "validateRecovery"
    /\ RecoveryParses
    /\ RecoveryStatement.CertificateValidFrom.valid
    /\ PolicyStartDay < RecoveryStatement.CertificateValidFrom.day
    /\ RecoveryStartDay <= RecoveryEndDay
    /\ PolicyStartDay * 86400 <= now.sec
    /\ now.sec < RecoveryStatement.CertificateValidFrom.day * 86400
    /\ result = <<"Recovery is not yet valid">>

MalformedError == <<"Cannot be issued after it expires">>
NotYetValidError == <<"Is issued before the current time">>
ExpiredError == <<"Is not valid anymore; was valid until %d">>

\* C6: for a certificate that is not a specimen, validateHcert returns
\* (false, nil) exactly when issuedAt <= now <= expirationTime; otherwise it
\* returns the malformed error when expirationTime < issuedAt, else the
\* not-yet-valid error when now < issuedAt, else the expired error.
C6_HcertWindow ==
    pc = "validateHcert" /\ hcert.ExpirationTime # 42 =>
        /\ ~result.isSpecimen
        /\ result.err = nil <=>
              hcert.IssuedAt <= now.sec /\ now.sec <= hcert.ExpirationTime
        /\ hcert.ExpirationTime < hcert.IssuedAt => result.err = MalformedError
        /\ hcert.ExpirationTime >= hcert.IssuedAt /\ now.sec < hcert.IssuedAt
              => result.err = NotYetValidError
        /\ hcert.ExpirationTime >= hcert.IssuedAt /\ now.sec >= hcert.IssuedAt
              /\ hcert.ExpirationTime < now.sec => result.err = ExpiredError
        /\ Cardinality({MalformedError, NotYetValidError, ExpiredError}) = 3
\* malformed and expired at once: the malformed error is the one reported
C6_Witness ==
    /\ pc = "validateHcert"
    /\ hcert.ExpirationTime # 42
    /\ hcert.ExpirationTime < hcert.IssuedAt
    /\ hcert.ExpirationTime < now.sec
    /\ result.err = MalformedError

\* C7: a certificate whose expirationTime is the sentinel 42 is a specimen
\* without error, whatever issuedAt and now are.
C7_Specimen ==
    pc = "validateHcert" /\ hcert.ExpirationTime = 42 =>
        result = [isSpecimen |-> TRUE, err |-> nil]
C7_Witness ==
    /\ pc = "validateHcert"
    /\ hcert.ExpirationTime = 42
    /\ hcert.IssuedAt > 42
    /\ now.sec > 42
    /\ result = [isSpecimen |-> TRUE, err |-> nil]

\* C8: verifyEuropean of a certificate whose signature verifies and whose
\* issuer is "NL" returns (nil, true, nil) whatever the certificate holds and
\* whatever now is; for every other issuer isNLDCC is false.
C8_LocalIssuer ==
    pc = "verifyEuropean" =>
        /\ payload.verifies /\ hcert.Issuer = "NL"
              => result = [details |-> nil, isNLDCC |-> TRUE, err |-> nil]
        /\ hcert.Issuer # "NL" => ~result.isNLDCC
\* a local certificate that is malformed and carries no statement
C8_Witness ==
    /\ pc = "verifyEuropean"
    /\ payload.verifies
    /\ hcert.Issuer = "NL"
    /\ hcert.ExpirationTime < hcert.IssuedAt
    /\ TotalAmount = 0
    /\ result.isNLDCC

LocalCertificate ==
    payload.shape = "international" /\ payload.verifies /\ hcert.Issuer = "NL"
ResultShape ==
    /\ result.Status \in {"SUCCESS", "FAILED_ERROR", "FAILED_UNRECOGNIZED_PREFIX"}
    /\ result.Status = "SUCCESS" => result.Details # nil /\ result.Error = nil
    /\ result.Status = "FAILED_ERROR" => result.Error # nil /\ result.Details = nil
    /\ result.Status = "FAILED_UNRECOGNIZED_PREFIX"
          => result.Details = nil /\ result.Error = nil

Dob == hcert.DCC.DateOfBirth
DigitsAt(v, i, j) == \A k \in i..j : v[k] \in Digits
DobShape ==
    \/ Len(Dob) = 0
    \/ Len(Dob) = 4 /\ DigitsAt(Dob, 1, 4)
    \/ Len(Dob) = 7 /\ DigitsAt(Dob, 1, 4) /\ Dob[5] = "-" /\ DigitsAt(Dob, 6, 7)
    \/ Len(Dob) = 10 /\ DigitsAt(Dob, 1, 4) /\ Dob[5] = "-" /\ DigitsAt(Dob, 6, 7)
                     /\ Dob[8] = "-" /\ DigitsAt(Dob, 9, 10)
DobCentury == Len(Dob) = 0 \/ SubSeq(Dob, 1, 2) \in {<<"1", "9">>, <<"2", "0">>}
DobAccepted ==
    \/ pc = "validateDateOfBirth" /\ result = nil
    \/ pc = "parseDateOfBirth" /\ result.err = nil
DobRejected ==
    \/ pc = "validateDateOfBirth" /\ result # nil
    \/ pc = "parseDateOfBirth" /\ result.err # nil

\* C10 as stated: the accepted dates of birth are the empty string and the
\* strings YYYY, YYYY-MM and YYYY-MM-DD of digits, for every 4-digit year;
\* every other string is rejected with an error.
C10_EveryYear ==
    pc # "start" => (DobAccepted <=> DobShape) /\ (DobRejected <=> ~DobShape)
\* C10 amended: the accepted dates of birth are the empty string and the
\* strings YYYY, YYYY-MM and YYYY-MM-DD of digits whose year begins with 19
\* or 20; every other string, a year of another century included, is
\* rejected with an error.
C10_Years1900To2099 ==
    pc # "start" =>
        /\ DobAccepted <=> DobShape /\ DobCentury
        /\ DobRejected <=> ~(DobShape /\ DobCentury)
C10_Witness ==
    /\ pc = "validateDateOfBirth"
    /\ Dob = <<"1", "8", "9", "9">>
    /\ result # nil

(***************************************************************************)
(* SpecDetails: one call of buildVerificationDetails, with the specimen    *)
(* flag that validateHcert gives the certificate, as verifyEuropean calls  *)
(* it                                                                      *)
(***************************************************************************)
DetailNames ==
    {[StandardizedFamilyName |-> f, StandardizedGivenName |-> g] :
        f \in {<< >>, <<"D">>, FamilyName}, g \in {<< >>, GivenName}}

InitDetails ==
    /\ Start
    /\ payload = DefaultPayload
    /\ rules = DefaultRules
    /\ now = DefaultNow
    /\ \/ \E dob \in DatesOfBirth :
             hcert = HealthCertificate("DE", 41, 43,
                         DCC(dob, DefaultName, <<GoodVaccination>>, << >>, << >>))
       \/ \E dob \in {<< >>, DateOfBirth, <<"2", "0", "2", "0", "-", "0", "1">>},
             name \in DetailNames, exp \in EpochSecs :
             hcert = HealthCertificate("DE", 41, exp,
                         DCC(dob, name, <<GoodVaccination>>, << >>, << >>))

BuildVerificationDetails ==
    Call("buildVerificationDetails",
         buildVerificationDetails(hcert, validateHcert(hcert, now).isSpecimen))

NextDetails == BuildVerificationDetails
SpecDetails == InitDetails /\ [][NextDetails]_vars

DobIsAccepted == DobShape /\ DobCentury
DetailFields ==
    {"CredentialVersion", "IsSpecimen", "IssuerCountryCode", "BirthMonth", "BirthDay",
     "FirstNameInitial", "LastNameInitial"}

\* C11: for every accepted date of birth the details hold as birthMonth the
\* two digits MM when the date has a month and "XX" otherwise, and as
\* birthDay the two digits DD when the date has a day and "XX" otherwise;
\* neither is empty, and no field of the details holds the year of birth.
C11_BirthFragments ==
    pc = "buildVerificationDetails" /\ DobIsAccepted =>
        /\ result.err = nil
        /\ Len(result.details) = 1
        /\ LET d == result.details[1]
           IN  /\ d.BirthMonth = IF Len(Dob) >= 7 THEN SubSeq(Dob, 6, 7) ELSE <<"X", "X">>
               /\ d.BirthDay = IF Len(Dob) = 10 THEN SubSeq(Dob, 9, 10) ELSE <<"X", "X">>
               /\ d.BirthMonth # << >> /\ d.BirthDay # << >>
               /\ DOMAIN d = DetailFields
               /\ Len(Dob) >= 4 =>
                     \A f \in {"BirthMonth", "BirthDay", "FirstNameInitial",
                               "LastNameInitial"} : d[f] # SubSeq(Dob, 1, 4)
\* a date of birth with a month and without a day
C11_Witness ==
    /\ pc = "buildVerificationDetails"
    /\ DobIsAccepted
    /\ Len(Dob) = 7
    /\ result.details[1].BirthMonth = SubSeq(Dob, 6, 7)
    /\ result.details[1].BirthDay = <<"X", "X">>

\* C12: the details hold as firstNameInitial the first character of the
\* standardized given name and as lastNameInitial the first character of the
\* standardized family name, each empty when its name is empty and never
\* longer than one character; besides the birth fragments they hold only
\* credentialVersion "1", isSpecimen "1" exactly for a certificate flagged
\* specimen and "0" otherwise, and an empty issuerCountryCode.
C12_Initials ==
    pc = "buildVerificationDetails" /\ result.err = nil =>
        LET d == result.details[1]
            given == hcert.DCC.Name.StandardizedGivenName
            family == hcert.DCC.Name.StandardizedFamilyName
        IN  /\ d.FirstNameInitial = IF given = << >> THEN << >> ELSE <<given[1]>>
            /\ d.LastNameInitial = IF family = << >> THEN << >> ELSE <<family[1]>>
            /\ Len(d.FirstNameInitial) <= 1 /\ Len(d.LastNameInitial) <= 1
            /\ d.CredentialVersion = "1"
            /\ d.IsSpecimen = IF hcert.ExpirationTime = 42 THEN "1" ELSE "0"
            /\ d.IssuerCountryCode = ""
            /\ DOMAIN d = DetailFields
\* a specimen without a given name
C12_Witness ==
    /\ pc = "buildVerificationDetails"
    /\ result.err = nil
    /\ hcert.DCC.Name.StandardizedGivenName = << >>
    /\ Len(hcert.DCC.Name.StandardizedFamilyName) > 1
    /\ hcert.ExpirationTime = 42
    /\ result.details[1].FirstNameInitial = << >>
    /\ result.details[1].LastNameInitial = <<"D">>
    /\ result.details[1].IsSpecimen = "1"

(***************************************************************************)
(* SpecDomestic: one call of Verify on a disclosed domestic credential     *)
(***************************************************************************)
CredentialsAttributes ==
    {[isSpecimen |-> specimen, isPaperProof |-> "0",
      validFrom |-> from, validForHours |-> hours,
      firstNameInitial |-> first, lastNameInitial |-> <<"R">>,
      birthDay |-> day, birthMonth |-> <<"1", "0">>] :
        specimen \in {"0", "1"},
        from \in {DecimalString(0), DecimalString(Day), DecimalString(2 * Day),
                  NoDecimalString},
        hours \in {DecimalString(0), DecimalString(1), DecimalString(40), NoDecimalString},
        first \in {<< >>, <<"A">>},
        day \in {<<"2", "0">>, <<"X", "X">>}}

InitDomestic ==
    /\ Start
    /\ rules = DefaultRules
    /\ hcert = DefaultHcert
    /\ \E v \in BOOLEAN, a \in CredentialsAttributes :
          payload = [shape |-> "domestic", verifies |-> v, attributes |-> a]
    /\ \E s \in TestNows : now = Time(s, 0)

NextDomestic == VerifyCall
SpecDomestic == InitDomestic /\ [][NextDomestic]_vars

DomesticVerified ==
    /\ payload.shape = "domestic"
    /\ payload.verifies
    /\ payload.attributes.validFrom.valid
    /\ payload.attributes.validForHours.valid
ValidFromSec == payload.attributes.validFrom.value
ValidForSec == payload.attributes.validForHours.value * 3600

\* C13: for a domestic credential whose proof verifies, Verify returns
\* SUCCESS exactly when validFrom <= now < validFrom + validForHours * 3600
\* and FAILED_ERROR with an error otherwise; with validForHours = 40 the
\* credentials valid from one day before now and from now succeed and the
\* one valid from one day after now fails.
C13_DomesticWindow ==
    pc = "Verify" /\ DomesticVerified =>
        /\ result.Status = "SUCCESS" <=>
              ValidFromSec <= now.sec /\ now.sec < ValidFromSec + ValidForSec
        /\ result.Status # "SUCCESS" =>
              result.Status = "FAILED_ERROR" /\ result.Error # nil
        /\ ValidForSec = 40 * 3600 /\ ValidFromSec \in {now.sec - 86400, now.sec}
              => result.Status = "SUCCESS"
        /\ ValidForSec = 40 * 3600 /\ ValidFromSec = now.sec + 86400
              => result.Status = "FAILED_ERROR"
\* the credential valid from one day before now
C13_Witness ==
    /\ pc = "Verify"
    /\ DomesticVerified
    /\ ValidForSec = 40 * 3600
    /\ ValidFromSec = now.sec - 86400
    /\ result.Status = "SUCCESS"

\* C14: the details of a domestic SUCCESS hold isSpecimen, the initials and
\* the birth fragments exactly as the attribute map has them, with
\* issuerCountryCode "NL" and credentialVersion "2", and nothing else:
\* validFrom, validForHours and isPaperProof are not among them.
C14_DomesticDetails ==
    pc = "Verify" /\ payload.shape = "domestic" /\ result.Status = "SUCCESS" =>
        /\ Len(result.Details) = 1
        /\ LET d == result.Details[1]
               a == payload.attributes
           IN  /\ d.IsSpecimen = a.isSpecimen
               /\ d.FirstNameInitial = a.firstNameInitial
               /\ d.LastNameInitial = a.lastNameInitial
               /\ d.BirthDay = a.birthDay
               /\ d.BirthMonth = a.birthMonth
               /\ d.IssuerCountryCode = "NL"
               /\ d.CredentialVersion = "2"
               /\ DOMAIN d = DetailFields
C14_Witness ==
    /\ pc = "Verify"
    /\ payload.shape = "domestic"
    /\ result.Status = "SUCCESS"
    /\ payload.attributes.isSpecimen = "1"
    /\ result.Details[1].IsSpecimen = "1"
    /\ result.Details[1].BirthDay = <<"X", "X">>
    /\ result.Details[1].BirthMonth = <<"1", "0">>

\* C15: a payload of neither shape gets FAILED_UNRECOGNIZED_PREFIX without
\* details and without error; a payload of a recognized shape whose proof or
\* signature does not verify, or whose verification fails later, gets
\* FAILED_ERROR with an error and never FAILED_UNRECOGNIZED_PREFIX.
C15_UnrecognizedOnly ==
    pc = "Verify" =>
        /\ payload.shape = "unrecognized" =>
              result = [Status |-> "FAILED_UNRECOGNIZED_PREFIX", Details |-> nil,
                        Error |-> nil]
        /\ payload.shape # "unrecognized" /\ ~payload.verifies =>
              result.Status = "FAILED_ERROR" /\ result.Error # nil
        /\ payload.shape # "unrecognized" /\ ~LocalCertificate =>
              /\ result.Status \in {"SUCCESS", "FAILED_ERROR"}
              /\ result.Details = nil => result.Status = "FAILED_ERROR"
C15_Witness ==
    /\ pc = "Verify"
    /\ payload.shape = "unrecognized"
    /\ result.Status = "FAILED_UNRECOGNIZED_PREFIX"
    /\ result.Details = nil
    /\ result.Error = nil

HcertStagePasses ==
    \/ hcert.ExpirationTime = 42
    \/ hcert.IssuedAt <= now.sec /\ now.sec <= hcert.ExpirationTime
DCCStagePasses ==
    /\ DobShape /\ DobCentury
    /\ \/ hcert.DCC.Name.StandardizedFamilyName # << >>
       \/ hcert.DCC.Name.StandardizedGivenName # << >>
    /\ TotalAmount = 1
    /\ EveryStatementGood
EveryStagePasses ==
    /\ payload.verifies
    /\ hcert.Issuer # "NL"
    /\ HcertStagePasses
    /\ DCCStagePasses

\* C16: verifyEuropean returns details exactly when the signature verifies,
\* the issuer is not "NL", validateHcert passes and validateDCC passes; when
\* one of these stages fails it returns an error, no details and isNLDCC
\* false.  A specimen is no exception: its statement must pass its rule,
\* the validity window of the statement included.
C16_EveryStage ==
    pc = "verifyEuropean" =>
        /\ result.details # nil <=> EveryStagePasses
        /\ result.details # nil => result.err = nil /\ ~result.isNLDCC
        /\ ~EveryStagePasses /\ ~(payload.verifies /\ hcert.Issuer = "NL") =>
              result.err # nil /\ result.details = nil /\ ~result.isNLDCC
\* a specimen whose vaccination is not yet valid
C16_Witness ==
    /\ pc = "verifyEuropean"
    /\ payload.verifies
    /\ hcert.Issuer # "NL"
    /\ hcert.ExpirationTime = 42
    /\ hcert.DCC.Vaccinations = <<LateVaccination>>
    /\ DobShape /\ DobCentury
    /\ hcert.DCC.Name.StandardizedFamilyName # << >>
    /\ result.details = nil
    /\ result.err = <<"Could not validate DCC", "Invalid vaccination statement",
                      "Date of vaccination is before the delayed validity date">>

====
